---- MODULE Spec2Model ----
(***************************************************************************)
(* Model of the openrelik Plaso worker: the three Celery tasks             *)
(* (log2timeline, psort, artifact_extract) that supervise an external      *)
(* Plaso process, and the helpers of utils.py (status parsing, EWF         *)
(* detection, CLI log classification).                                     *)
(*                                                                         *)
(* Python strings are modelled as sequences of one-character strings, so   *)
(* that splitting, stripping, case folding and matching are computed       *)
(* character by character as the code does.                                *)
(***************************************************************************)
EXTENDS Integers, Sequences, FiniteSets, TLC

(***************************************************************************)
(* Bounds of the model.                                                    *)
(***************************************************************************)
MaxLogLines == 3

MaxStatusTokens == 5

MaxEwfFiles == 2

(***************************************************************************)
(* Python str primitives.                                                  *)
(***************************************************************************)
Whitespace == {" ", "\t", "\n", "\r"}

LineBreaks == {"\n", "\r"}

LowerLetters ==
    <<"a","b","c","d","e","f","g","h","i","j","k","l","m",
      "n","o","p","q","r","s","t","u","v","w","x","y","z">>

UpperLetters ==
    <<"A","B","C","D","E","F","G","H","I","J","K","L","M",
      "N","O","P","Q","R","S","T","U","V","W","X","Y","Z">>

Digits == <<"0","1","2","3","4","5","6","7","8","9">>

Range(s) == {s[i] : i \in DOMAIN s}

IndexIn(c, s) == CHOOSE i \in DOMAIN s : s[i] = c

\* str.lower() / str.upper() of one character.
LowerChar(c) ==
    IF c \in Range(UpperLetters) THEN LowerLetters[IndexIn(c, UpperLetters)] ELSE c

UpperChar(c) ==
    IF c \in Range(LowerLetters) THEN UpperLetters[IndexIn(c, LowerLetters)] ELSE c

Lower(s) == [i \in DOMAIN s |-> LowerChar(s[i])]

Upper(s) == [i \in DOMAIN s |-> UpperChar(s[i])]

\* The regular expression class \w.
IsWordChar(c) ==
    c \in Range(LowerLetters) \cup Range(UpperLetters) \cup Range(Digits) \cup {"_"}

\* str.rstrip(): trailing whitespace removed.
RECURSIVE RStrip(_)
RStrip(s) ==
    IF s # <<>> /\ s[Len(s)] \in Whitespace
    THEN RStrip(SubSeq(s, 1, Len(s) - 1))
    ELSE s

\* str.lstrip(chars) and str.rstrip(chars), then str.strip(chars).
RECURSIVE LStripChars(_, _)
LStripChars(s, chars) ==
    IF s # <<>> /\ s[1] \in chars THEN LStripChars(Tail(s), chars) ELSE s

RECURSIVE RStripChars(_, _)
RStripChars(s, chars) ==
    IF s # <<>> /\ s[Len(s)] \in chars
    THEN RStripChars(SubSeq(s, 1, Len(s) - 1), chars)
    ELSE s

StripChars(s, chars) == LStripChars(RStripChars(s, chars), chars)

\* str.split(): maximal runs of non-whitespace characters, in order.
RECURSIVE SplitAcc(_, _, _)
SplitAcc(s, cur, acc) ==
    IF s = <<>>
    THEN IF cur = <<>> THEN acc ELSE Append(acc, cur)
    ELSE IF s[1] \in Whitespace
         THEN SplitAcc(Tail(s), <<>>, IF cur = <<>> THEN acc ELSE Append(acc, cur))
         ELSE SplitAcc(Tail(s), Append(cur, s[1]), acc)

Split(s) == SplitAcc(s, <<>>, <<>>)

\* str.splitlines(): the text cut at line boundaries ("\r\n" is one boundary);
\* no empty last line after a final boundary.
RECURSIVE SplitLinesAcc(_, _, _)
SplitLinesAcc(s, cur, acc) ==
    IF s = <<>>
    THEN IF cur = <<>> THEN acc ELSE Append(acc, cur)
    ELSE IF s[1] \in LineBreaks
         THEN LET rest == IF s[1] = "\r" /\ Len(s) > 1 /\ s[2] = "\n"
                          THEN Tail(Tail(s)) ELSE Tail(s)
              IN  SplitLinesAcc(rest, <<>>, Append(acc, cur))
         ELSE SplitLinesAcc(Tail(s), Append(cur, s[1]), acc)

SplitLines(s) == SplitLinesAcc(s, <<>>, <<>>)

\* sep.join(parts)
RECURSIVE Join(_, _)
Join(parts, sep) ==
    IF parts = <<>> THEN <<>>
    ELSE IF Len(parts) = 1 THEN parts[1]
    ELSE parts[1] \o sep \o Join(Tail(parts), sep)

(***************************************************************************)
(* utils.py: process_plaso_cli_logs                                        *)
(***************************************************************************)
\* logging._nameToLevel
NameToLevel ==
    (<<"C","R","I","T","I","C","A","L">> :> 50) @@
    (<<"F","A","T","A","L">> :> 50) @@
    (<<"E","R","R","O","R">> :> 40) @@
    (<<"W","A","R","N">> :> 30) @@
    (<<"W","A","R","N","I","N","G">> :> 30) @@
    (<<"I","N","F","O">> :> 20) @@
    (<<"D","E","B","U","G">> :> 10) @@
    (<<"N","O","T","S","E","T">> :> 0)

\* logging.INFO
INFO == NameToLevel[<<"I","N","F","O">>]

\* logging.getLevelName(name): the level number of a registered name, else the
\* string "Level <name>".
getLevelName(level_str) ==
    IF level_str \in DOMAIN NameToLevel
    THEN [is_int |-> TRUE, value |-> NameToLevel[level_str]]
    ELSE [is_int |-> FALSE, value |-> <<"L","e","v","e","l"," ">> \o level_str]

\* Length of the longest run of \w characters of s starting at position i.
RECURSIVE WordRun(_, _)
WordRun(s, i) ==
    IF i <= Len(s) /\ IsWordChar(s[i]) THEN 1 + WordRun(s, i + 1) ELSE 0

\* log_pattern.match(line) for ^\[(?P<level>\w+)\]\s*(?P<msg>.*)$ : \w+ is
\* greedy and must be followed by "]", which is no \w character, so the only
\* candidate is the longest run; \s* is greedy and .* takes the rest.
LogPatternMatch(line) ==
    LET n == WordRun(line, 2)
    IN  IF /\ Len(line) >= 1
           /\ line[1] = "["
           /\ n >= 1
           /\ Len(line) >= n + 2
           /\ line[n + 2] = "]"
        THEN [matched |-> TRUE,
              level |-> SubSeq(line, 2, n + 1),
              msg |-> LStripChars(SubSeq(line, n + 3, Len(line)), Whitespace)]
        ELSE [matched |-> FALSE, level |-> <<>>, msg |-> <<>>]

\* A variant in which an unknown tag falls back to INFO.
HeaderLevelReset(current_level, new_level) ==
    IF new_level.is_int THEN new_level.value ELSE INFO

\* Lines 90-92: the level carried on after a header line.
HeaderLevel(current_level, new_level) ==
    IF new_level.is_int THEN new_level.value ELSE current_level

\* A variant in which an untagged line is always logged at INFO.
ContinuationLevelDefault(current_level) == INFO

\* Line 97: the level an untagged line is logged at.
ContinuationLevel(current_level) == current_level

\* The loop body (lines 77-97) on one line: the carried level after it and the
\* records it logs.
ProcessLine(raw, current_level) ==
    LET line == RStrip(raw)
        match == LogPatternMatch(line)
    IN  IF line = <<>>
        THEN [level |-> current_level, logged |-> <<>>]
        ELSE IF match.matched
             THEN LET new_level == getLevelName(Upper(match.level))
                      lvl == HeaderLevel(current_level, new_level)
                  IN  [level |-> lvl,
                       logged |-> << [level |-> lvl, msg |-> match.msg] >>]
             ELSE [level |-> current_level,
                   logged |-> << [level |-> ContinuationLevel(current_level),
                                  msg |-> line] >>]

RECURSIVE ProcessLines(_, _, _)
ProcessLines(lines, current_level, logged) ==
    IF lines = <<>> THEN logged
    ELSE LET r == ProcessLine(lines[1], current_level)
         IN  ProcessLines(Tail(lines), r.level, logged \o r.logged)

\* process_plaso_cli_logs(cli_logs, logger) on a captured stream value, which
\* is a str (text mode) or a bytes object.  bytes.splitlines(), bytes.rstrip()
\* and the emptiness test work on bytes; log_pattern is a str pattern, so its
\* match() on the first non-blank bytes line raises TypeError.
process_plaso_cli_logs(cli_logs) ==
    LET lines == SplitLines(cli_logs.data)
        nonblank == {i \in DOMAIN lines : RStrip(lines[i]) # <<>>}
    IN  IF cli_logs.kind = "bytes" /\ nonblank # {}
        THEN [raised |-> "TypeError", logged |-> <<>>]
        ELSE [raised |-> "none", logged |-> ProcessLines(lines, INFO, <<>>)]

(***************************************************************************)
(* utils.py: log2timeline_status_to_dict                                   *)
(***************************************************************************)
DigitValue(c) == IndexIn(c, Digits) - 1

\* Whether int(tok) succeeds for a token without whitespace: an optional sign,
\* then decimal digits, single underscores allowed between digits.
IsIntLiteral(tok) ==
    LET body == IF tok # <<>> /\ tok[1] \in {"+", "-"} THEN Tail(tok) ELSE tok
    IN  /\ body # <<>>
        /\ \A i \in DOMAIN body : body[i] \in Range(Digits) \cup {"_"}
        /\ body[1] # "_"
        /\ body[Len(body)] # "_"
        /\ \A i \in 1..(Len(body) - 1) : ~(body[i] = "_" /\ body[i + 1] = "_")

RECURSIVE DecimalValue(_)
DecimalValue(ds) ==
    IF ds = <<>> THEN 0
    ELSE IF ds[Len(ds)] = "_" THEN DecimalValue(SubSeq(ds, 1, Len(ds) - 1))
    ELSE 10 * DecimalValue(SubSeq(ds, 1, Len(ds) - 1)) + DigitValue(ds[Len(ds)])

\* int(tok), for a token IsIntLiteral accepts.
IntOf(tok) ==
    IF tok[1] = "-" THEN 0 - DecimalValue(Tail(tok))
    ELSE IF tok[1] = "+" THEN DecimalValue(Tail(tok))
    ELSE DecimalValue(tok)

\* A variant that strips trailing colons only: name.rstrip(":").lower()
StatusKeyRStripOnly(name) == Lower(RStripChars(name, {":"}))

\* Line 31: name.strip(":").lower()
StatusKey(name) == Lower(StripChars(name, {":"}))

\* Line 28: status_string.split()[1:]
StatusItems(status_string) ==
    LET toks == Split(status_string)
    IN  IF toks = <<>> THEN <<>> ELSE Tail(toks)

\* Lines 30-31: the loop over zip(items[::2], items[1::2]) from pair k on;
\* int() raises ValueError at the first value that is no integer literal.
RECURSIVE StatusLoop(_, _, _)
StatusLoop(items, k, tasks) ==
    IF 2 * k > Len(items)
    THEN [raised |-> "none", dict |-> [tasks |-> tasks]]
    ELSE IF ~IsIntLiteral(items[2 * k])
         THEN [raised |-> "ValueError", dict |-> [tasks |-> tasks]]
         ELSE StatusLoop(items, k + 1,
                         (StatusKey(items[2 * k - 1]) :> IntOf(items[2 * k])) @@ tasks)

log2timeline_status_to_dict(status_string) ==
    StatusLoop(StatusItems(status_string), 1, <<>>)

(***************************************************************************)
(* utils.py: is_ewf_files                                                  *)
(***************************************************************************)
\* Line 49: tuple(f".e{i:02d}" for i in range(1, 100))
ewf_extensions ==
    { <<".", "e", Digits[(i \div 10) + 1], Digits[(i % 10) + 1]>> : i \in 1..99 }

\* str.endswith(tuple)
EndsWith(s, suffixes) ==
    \E suf \in suffixes :
        /\ Len(s) >= Len(suf)
        /\ SubSeq(s, Len(s) - Len(suf) + 1, Len(s)) = suf

\* dict.get(key, default)
DictGet(d, key, default) == IF key \in DOMAIN d THEN d[key] ELSE default

\* A variant that compares the path without lower-casing it.
IsEwfPathCaseSensitive(input_file) ==
    EndsWith(DictGet(input_file, "path", <<>>), ewf_extensions)

\* Line 53: the test applied to one input file.
IsEwfPath(input_file) ==
    EndsWith(Lower(DictGet(input_file, "path", <<>>)), ewf_extensions)

\* Lines 52-56: all(...) over the input files.
is_ewf_files(input_files) ==
    \A i \in DOMAIN input_files : IsEwfPath(input_files[i])

(***************************************************************************)
(* State of the helper specifications: the input handed to each helper of  *)
(* utils.py, built piece by piece, and what the helper returns for it.     *)
(***************************************************************************)
VARIABLES
    log_sep,            \* the line terminator of the captured text
    log_lines,          \* the lines the external tool wrote, in order
    cli_logs,           \* the captured stream value handed to process_plaso_cli_logs
    log_result,         \* what process_plaso_cli_logs did with cli_logs
    status_sep,         \* the whitespace between the tokens of the status text
    status_tokens,      \* the tokens the external tool wrote, in order
    status_string,      \* the status file content
    status_result,      \* what log2timeline_status_to_dict returned for status_string
    ewf_input_files,    \* the input_files argument of is_ewf_files
    ewf_result          \* what is_ewf_files returned for ewf_input_files

logVars == <<log_sep, log_lines, cli_logs, log_result>>

statusVars == <<status_sep, status_tokens, status_string, status_result>>

ewfVars == <<ewf_input_files, ewf_result>>

StrValue(data) == [kind |-> "str", data |-> data]

BytesValue(data) == [kind |-> "bytes", data |-> data]

\* ---- process_plaso_cli_logs inputs ----
TagERROR == <<"[","E","R","R","O","R","]">>

TagBOGUS == <<"[","B","O","G","U","S","]">>

LogLineSamples ==
    { <<>>,
      <<" ">>,
      <<"x">>,
      <<"z","\t">>,
      TagERROR \o <<" ","a">>,
      <<"[","d","e","b","u","g","]","b">>,
      <<"[","W","a","r","n","]"," "," ","c"," ">>,
      <<"[","N","O","T","S","E","T","]"," ","d">>,
      TagBOGUS \o <<" ","e">>,
      <<"[","1","0","]"," ","f">>,
      <<"[","E","R","R","O","R"," ","g">>,
      <<" ">> \o TagERROR \o <<" ","h">>,
      <<"k"," ">> \o TagERROR }

LogSeps == { <<"\n">>, <<"\r","\n">> }

LogsInit ==
    /\ log_sep \in LogSeps
    /\ log_lines = <<>>
    /\ cli_logs = StrValue(<<>>)
    /\ log_result = process_plaso_cli_logs(StrValue(<<>>))

\* The external tool writes one more line; the worker classifies the text.
LogAppendLine(line) ==
    /\ Len(log_lines) < MaxLogLines
    /\ log_lines' = Append(log_lines, line)
    /\ cli_logs' = StrValue(Join(log_lines', log_sep))
    /\ log_result' = process_plaso_cli_logs(cli_logs')
    /\ UNCHANGED log_sep

\* ---- log2timeline_status_to_dict inputs ----
StatusTokenSamples ==
    { <<"a",":">>, <<"A">>, <<":","b">>, <<"c",":",":">>, <<"7">>, <<"-","1","2">> }

StatusSeps == { <<" ">>, <<"\n","\t">> }

StatusInit ==
    /\ status_sep \in StatusSeps
    /\ status_tokens = <<>>
    /\ status_string = <<>>
    /\ status_result = log2timeline_status_to_dict(<<>>)

\* The external tool writes one more token; the worker parses the text.
StatusAppendToken(tok) ==
    /\ Len(status_tokens) < MaxStatusTokens
    /\ status_tokens' = Append(status_tokens, tok)
    /\ status_string' = Join(status_tokens', status_sep)
    /\ status_result' = log2timeline_status_to_dict(status_string')
    /\ UNCHANGED status_sep

\* ---- is_ewf_files inputs ----
EwfStems == { <<>>, <<"i">> }

EwfSuffixes ==
    { <<>>,
      <<".","e","0","1">>,
      <<".","E","0","2">>,
      <<".","e","9","9">>,
      <<".","E","1","0">>,
      <<".","e","0","0">>,
      <<".","e","1","0","0">>,
      <<".","e","0","1",".","b">>,
      <<".","e","x","e","0","1">>,
      <<".","t","x","t">>,
      <<"e","0","1">>,
      <<".","e","1">>,
      <<".","f","0","1">> }

EwfFileSamples ==
    { [name |-> <<"n">>] } \cup
    { [path |-> stem \o suf] : stem \in EwfStems, suf \in EwfSuffixes }

EwfInit ==
    /\ ewf_input_files = <<>>
    /\ ewf_result = is_ewf_files(<<>>)

\* One more input file is listed; the worker tests the list.
EwfAppendFile(input_file) ==
    /\ Len(ewf_input_files) < MaxEwfFiles
    /\ ewf_input_files' = Append(ewf_input_files, input_file)
    /\ ewf_result' = is_ewf_files(ewf_input_files')

(***************************************************************************)
(* The tasks: one invocation of log2timeline, psort or artifact_extract.   *)
(***************************************************************************)
MaxInputs == 2

MaxPolls == 2

\* What the pipe of a captured standard output holds, and the most a tool
\* writes to its standard output, both counted in blocks.
PipeCapacity == 1

MaxStdout == 2

VARIABLES
    task,               \* which Celery task this invocation runs
    input_files,        \* get_input_files(...): the input file dictionaries
    task_config,        \* the task_config argument
    pc,                 \* the position of the worker in the task's code
    idx,                \* the index of the loop over input_files
    next_uuid,          \* the number of fresh names (uuid4, temporary file) drawn
    output_file,        \* local variable output_file
    status_file,        \* local variable status_file
    export_directory,   \* local variable export_directory (artifact_extract)
    temp_plaso_file,    \* local variable temp_plaso_file (log2timeline)
    temp_dir,           \* local variable temp_dir (log2timeline)
    command,            \* local variable command
    command_string,     \* local variable command_string
    output_files,       \* local variable output_files
    processes,          \* every subprocess.Popen so far; the last is `process`
    status_text,        \* the content of the current status file, once written
    disk,               \* the files and directories that exist
    produced,           \* the files whose content an external process wrote
    events,             \* the task-progress events sent so far
    polls,              \* status snapshots read so far
    stdout,             \* standard output of `process`: blocks unwritten, blocks in the pipe
    outcome             \* how the invocation ended: a result, or an exception

taskVars ==
    <<task, input_files, task_config, pc, idx, next_uuid, output_file, status_file,
      export_directory, temp_plaso_file, temp_dir, command, command_string,
      output_files, processes, status_text, disk, produced, events, polls, stdout,
      outcome>>

vars == <<logVars, statusVars, ewfVars, taskVars>>

Tasks == {"log2timeline", "psort", "artifact_extract"}

\* A Python name that is not bound yet, and the value None.
Unbound == [bound |-> FALSE]

None == [is_none |-> TRUE]

\* str of a character sequence, and separator.join of a list of str.
RECURSIVE Str(_)
Str(chars) == IF chars = <<>> THEN "" ELSE chars[1] \o Str(Tail(chars))

RECURSIVE JoinStr(_, _)
JoinStr(parts, sep) ==
    IF parts = <<>> THEN ""
    ELSE IF Len(parts) = 1 THEN parts[1]
    ELSE parts[1] \o sep \o JoinStr(Tail(parts), sep)

\* ---- the file system ----
\* A path the worker makes is the tuple of its components; on a command line
\* it is the string PathStr gives.
PathStr(p) == "/" \o JoinStr(p, "/")

File(p) == [path |-> p, kind |-> "file"]

Dir(p) == [path |-> p, kind |-> "dir"]

\* A variant that finds every path.
ExistsAlways(d, p) == TRUE

\* os.path.exists(p)
Exists(d, p) == \E e \in d : e.path = p

IsPrefix(p, q) == Len(p) <= Len(q) /\ SubSeq(q, 1, Len(p)) = p

\* shutil.rmtree(p)
RmTree(d, p) == {e \in d : ~IsPrefix(p, e.path)}

\* The directories between dir and the file dir/rel, which writing it creates.
ParentDirs(dir, rel) == {Dir(dir \o SubSeq(rel, 1, k)) : k \in 1..(Len(rel) - 1)}

\* The argument output_path.
output_path == <<"out">>

\* uuid4().hex of the n-th draw.
Uuid(n) == "u" \o ToString(n)

\* create_output_file(output_path, display_name=..., extension=..., data_type=...):
\* a fresh slot under output_path; nothing is written to disk.
create_output_file(n, display_name, extension, data_type) ==
    [bound |-> TRUE,
     uuid |-> Uuid(n),
     display_name |-> display_name,
     data_type |-> data_type,
     path |-> output_path \o
              << Uuid(n) \o (IF extension = "" THEN "" ELSE "." \o extension) >>]

\* OutputFile.to_dict()
to_dict(f) == [path |-> f.path, display_name |-> f.display_name, data_type |-> f.data_type]

\* os.path.basename and os.path.splitext(path)[1] of an input path: the
\* extension starts at the last "." of the last component (none when the
\* component has no dot or only leading dots).
LastIndexOf(s, c) ==
    IF \E i \in DOMAIN s : s[i] = c
    THEN CHOOSE i \in DOMAIN s : s[i] = c /\ \A j \in (i + 1)..Len(s) : s[j] # c
    ELSE 0

Basename(path) == SubSeq(path, LastIndexOf(path, "/") + 1, Len(path))

SplitExt(path) ==
    LET base == Basename(path)
        dot == LastIndexOf(base, ".")
    IN  IF dot = 0 \/ \A i \in 1..dot : base[i] = "." THEN <<>>
        ELSE SubSeq(base, dot, Len(base))

\* ---- inputs ----
PathE01 == <<"a",".","E","0","1">>

PathE02 == <<"a",".","e","0","2">>

PathE03 == <<"b",".","e","0","3">>

PathTxt == <<"c",".","t","x","t">>

InputPathSamples(t) ==
    IF t = "log2timeline" THEN {PathE01, PathE02, PathE03, PathTxt}
    ELSE {PathTxt}

InputFile(path) == [path |-> path, display_name |-> Str(path)]

RECURSIVE InputLists(_, _)
InputLists(t, n) ==
    IF n = 0 THEN { <<>> }
    ELSE InputLists(t, n - 1) \cup
         { Append(l, InputFile(p)) :
             l \in {x \in InputLists(t, n - 1) : Len(x) = n - 1},
             p \in InputPathSamples(t) }

TaskConfigSamples(t) ==
    IF t = "log2timeline"
    THEN { None,
           [is_none |-> FALSE, artifacts |-> <<"art1", "art2">>, parsers |-> <<>>,
            archives |-> <<"zip">>, yara_rules |-> "rule"] }
    ELSE IF t = "psort"
    THEN { None, [is_none |-> FALSE, output_format |-> "json"] }
    ELSE { None, [is_none |-> FALSE, artifacts |-> "art1,art2"] }

\* The status texts the external tool may write.
StatusFileSamples ==
    { <<"P"," ","a",":"," ","1">>,
      <<"P"," ","a",":"," ","x">> }

\* What the external tool may have written to its standard error.
StderrSamples == { <<>>, TagERROR \o <<" ","a">> }

ExitCodes == {0, 1}

\* The files image_export.py may write, relative to its export directory.
ExportedNames == { <<"f1">>, <<"d", "f2">> }

NoResult == [kind |-> "none"]

\* A standard output with nothing to write and nothing buffered.
NoStdout == [unwritten |-> 0, buffered |-> 0]

\* The standard outputs a tool started with a captured pipe may have.
StdoutSamples == {[unwritten |-> n, buffered |-> 0] : n \in 0..MaxStdout}

TaskIdle ==
    /\ task = "idle"
    /\ input_files = <<>>
    /\ task_config = None
    /\ pc = "done"
    /\ idx = 0
    /\ next_uuid = 0
    /\ output_file = Unbound
    /\ status_file = Unbound
    /\ export_directory = Unbound
    /\ temp_plaso_file = Unbound
    /\ temp_dir = None
    /\ command = <<>>
    /\ command_string = ""
    /\ output_files = <<>>
    /\ processes = <<>>
    /\ status_text = <<>>
    /\ disk = {}
    /\ produced = {}
    /\ events = <<>>
    /\ polls = 0
    /\ stdout = NoStdout
    /\ outcome = NoResult

\* The helper inputs, when no helper specification is running.
LogsIdle ==
    /\ log_sep = <<"\n">>
    /\ log_lines = <<>>
    /\ cli_logs = StrValue(<<>>)
    /\ log_result = [raised |-> "none", logged |-> <<>>]

StatusIdle ==
    /\ status_sep = <<" ">>
    /\ status_tokens = <<>>
    /\ status_string = <<>>
    /\ status_result = [raised |-> "none", dict |-> [tasks |-> <<>>]]

EwfIdle ==
    /\ ewf_input_files = <<>>
    /\ ewf_result = TRUE

\* The state when the task function is entered (lines 131-133 of log2timeline.py,
\* 90-92 of psort.py, 78-79 of image_export.py).
TaskInit ==
    /\ task \in Tasks
    /\ input_files \in InputLists(task, MaxInputs)
    /\ task_config \in TaskConfigSamples(task)
    /\ pc = "start"
    /\ idx = 1
    /\ next_uuid = 0
    /\ output_file = Unbound
    /\ status_file = Unbound
    /\ export_directory = Unbound
    /\ temp_plaso_file = Unbound
    /\ temp_dir = None
    /\ command = <<>>
    /\ command_string = ""
    /\ output_files = <<>>
    /\ processes = <<>>
    /\ status_text = <<>>
    /\ disk = {}
    /\ produced = {}
    /\ events = <<>>
    /\ polls = 0
    /\ stdout = NoStdout
    /\ outcome = NoResult

\* ---- results, errors, events ----
\* An exception that leaves the task function: its type, where it was raised,
\* and the exit codes of the external process that it carries.
Error(exc, at) == [kind |-> "error", exc |-> exc, at |-> at, exit_codes |-> {}]

\* create_task_result(...) / task_result(...): the result envelope.
create_task_result(files, cmd) ==
    [kind |-> "result", output_files |-> files, command |-> cmd]

\* self.send_event("task-progress", data=...): data is {} or {"tasks": {...}}.
EmptyData == [keys |-> {}, tasks |-> <<>>]

StatusData(dict) == [keys |-> {"tasks"}, tasks |-> dict.tasks]

StartedEvent == [data |-> EmptyData, src |-> "start"]

PollEvent(data) == [data |-> data, src |-> "poll"]

\* subprocess.Popen(command, ...): a running child process.
Popen(argv, capture, text_mode) ==
    [argv |-> argv, state |-> "running", returncode |-> 0,
     capture |-> capture, text_mode |-> text_mode, stderr |-> <<>>]

process == processes[Len(processes)]

\* The argument that follows `flag` in argv.
HasFlag(argv, flag) == \E i \in 1..(Len(argv) - 1) : argv[i] = flag

ArgAfter(argv, flag) ==
    argv[(CHOOSE i \in 1..(Len(argv) - 1) : argv[i] = flag) + 1]

(***************************************************************************)
(* log2timeline.py, lines 135-228: outputs, command, hard links, spawn.    *)
(***************************************************************************)
\* Lines 152-166.
L2tBaseCommand(status_path, storage_path) ==
    <<"log2timeline.py", "--quiet", "--unattended", "--partitions", "all",
      "--volumes", "all", "--status-view", "file",
      "--status-view-file", PathStr(status_path),
      "--storage-file", PathStr(storage_path)>>

\* Lines 168-185.
L2tConfigArgs(cfg, yara_path) ==
    IF cfg.is_none THEN <<>>
    ELSE (IF cfg.artifacts # <<>>
          THEN <<"--artifact_filters", JoinStr(cfg.artifacts, ",")>> ELSE <<>>)
      \o (IF cfg.parsers # <<>>
          THEN <<"--parsers", JoinStr(cfg.parsers, ",")>> ELSE <<>>)
      \o (IF cfg.archives # <<>>
          THEN <<"--archives", JoinStr(cfg.archives, ",")>> ELSE <<>>)
      \o (IF cfg.yara_rules # "" THEN <<"--yara_rules", PathStr(yara_path)>> ELSE <<>>)

\* Lines 199-215: the name of the hard link made for each input file.
L2tLinkName(input_file, ewf, base_name) ==
    IF ewf
    THEN base_name \o Str(Lower(SplitExt(input_file.path)))
    ELSE Str(Basename(input_file.path))

\* The first input whose link name is already taken (os.link raises
\* FileExistsError there), or 0.
FirstDuplicate(names) ==
    LET dups == {k \in DOMAIN names : \E j \in 1..(k - 1) : names[j] = names[k]}
    IN  IF dups = {} THEN 0 ELSE CHOOSE k \in dups : \A j \in dups : k <= j

L2tStart ==
    /\ task = "log2timeline"
    /\ pc = "start"
    /\ LET n == Len(input_files)
           out == create_output_file(
                      next_uuid + 1,
                      IF n = 1 THEN input_files[1].display_name \o ".plaso" ELSE "",
                      IF n = 1 THEN "" ELSE "plaso",
                      "plaso:log2timeline:plaso_storage")
           status == create_output_file(next_uuid + 2, "", "status", "")
           temp == [bound |-> TRUE, name |-> <<"tmp", "tmp" \o Uuid(next_uuid + 3)>>]
           with_yara == ~task_config.is_none /\ task_config.yara_rules # ""
           yara == create_output_file(next_uuid + 4, "", "yara",
                                      "plaso:log2timeline:yara_rules")
           used == IF with_yara THEN next_uuid + 4 ELSE next_uuid + 3
           cmd == L2tBaseCommand(status.path, temp.name)
                      \o L2tConfigArgs(task_config, yara.path)
           disk1 == disk \cup {File(temp.name)}
                         \cup (IF with_yara THEN {File(yara.path)} ELSE {})
           dir == output_path \o << Uuid(used + 1) >>
           ewf == is_ewf_files(input_files)
           base_name == Uuid(used + 2)
           names == [i \in 1..n |-> L2tLinkName(input_files[i], ewf, base_name)]
           dup == FirstDuplicate(names)
           linked == IF dup = 0 THEN n ELSE dup - 1
           disk2 == disk1 \cup {Dir(dir)}
                          \cup {File(dir \o << names[i] >>) : i \in 1..linked}
           e01_file == dir \o << base_name \o ".e01" >>
           spawn(argv, d, u) ==
               /\ command' = argv
               /\ command_string' = JoinStr(argv, " ")
               /\ events' = Append(events, StartedEvent)
               /\ processes' = Append(processes, Popen(argv, TRUE, TRUE))
               /\ disk' = d
               /\ next_uuid' = u
               /\ pc' = "poll"
               /\ outcome' = outcome
           fail(exc, d, u) ==
               /\ command' = cmd
               /\ disk' = d
               /\ next_uuid' = u
               /\ pc' = "done"
               /\ outcome' = Error(exc, "start")
               /\ UNCHANGED <<command_string, events, processes>>
       IN  /\ output_file' = out
           /\ status_file' = status
           /\ temp_plaso_file' = temp
           /\ temp_dir' = IF n > 1 THEN [is_none |-> FALSE, path |-> dir] ELSE None
           /\ IF n > 1
              THEN IF dup # 0 THEN fail("FileExistsError", disk2, used + 2)
                   ELSE IF ewf
                        THEN IF ~Exists(disk2, e01_file)
                             THEN fail("RuntimeError", disk2, used + 2)
                             ELSE spawn(Append(cmd, PathStr(e01_file)), disk2, used + 2)
                        ELSE spawn(Append(cmd, PathStr(dir)), disk2, used + 1)
              ELSE IF n = 0 THEN fail("IndexError", disk1, used)
                   ELSE spawn(Append(cmd, Str(input_files[1].path)), disk1, used)
    /\ polls' = polls
    /\ status_text' = <<>>
    /\ IF pc' = "poll" THEN stdout' \in StdoutSamples ELSE stdout' = stdout
    /\ UNCHANGED <<task, input_files, task_config, idx, export_directory,
                   output_files, produced>>

(***************************************************************************)
(* psort.py, lines 98-135: one iteration of the loop up to the spawn.      *)
(***************************************************************************)
\* Lines 99-101.
output_extension ==
    IF ~task_config.is_none /\ task_config.output_format # ""
    THEN task_config.output_format ELSE "csv"

\* Lines 111-125.
PsortCommand(status_path, out_path, input_file) ==
    <<"psort.py", "--quiet", "--status-view", "file", "--additional_fields",
      "yara_match", "--status-view-file", PathStr(status_path),
      "-w", PathStr(out_path)>>
    \o (IF ~task_config.is_none /\ task_config.output_format # ""
        THEN <<"-o", task_config.output_format>> ELSE <<>>)
    \o << Str(input_file.path) >>

PsortStart ==
    /\ task = "psort"
    /\ pc = "start"
    /\ idx <= Len(input_files)
    /\ LET input_file == input_files[idx]
           out == create_output_file(
                      next_uuid + 1,
                      input_file.display_name \o "." \o output_extension,
                      "",
                      "plaso:psort:" \o output_extension)
           status == create_output_file(next_uuid + 2, "", "status", "")
           cmd == PsortCommand(status.path, out.path, input_file)
       IN  /\ output_file' = out
           /\ status_file' = status
           /\ command' = cmd
           /\ command_string' = JoinStr(cmd, " ")
           /\ events' = Append(events, StartedEvent)
           /\ processes' = Append(processes, Popen(cmd, TRUE, FALSE))
    /\ next_uuid' = next_uuid + 2
    /\ polls' = polls
    /\ status_text' = <<>>
    /\ pc' = "poll"
    /\ stdout' \in StdoutSamples
    /\ UNCHANGED <<task, input_files, task_config, idx, export_directory,
                   temp_plaso_file, temp_dir, output_files, disk, produced, outcome>>

(***************************************************************************)
(* image_export.py, lines 81-112: one iteration of the loop up to the      *)
(* spawn.                                                                  *)
(***************************************************************************)
\* Lines 93-108.
AeCommand(log_path, export_dir, artifacts, input_file) ==
    <<"image_export.py", "--no-hashes", "--logfile", PathStr(log_path),
      "--write", PathStr(export_dir),
      "--partitions", "all", "--volumes", "all", "--unattended",
      "--artifact_filters", artifacts, Str(input_file.path)>>

\* Line 110: " ".join(command[:5])
AeCommandString(cmd) == JoinStr(SubSeq(cmd, 1, 5), " ")

AeStart ==
    /\ task = "artifact_extract"
    /\ pc = "start"
    /\ idx <= Len(input_files)
    /\ LET input_file == input_files[idx]
           log_file == create_output_file(next_uuid + 1, "", "log", "")
           status == create_output_file(next_uuid + 2, "", "status", "")
           dir == output_path \o << Uuid(next_uuid + 3) >>
       IN  /\ status_file' = status
           /\ export_directory' = [bound |-> TRUE, path |-> dir]
           /\ disk' = disk \cup {Dir(dir)}
           /\ IF task_config.is_none
              THEN \* task_config["artifacts"] on None raises TypeError
                   /\ pc' = "done"
                   /\ outcome' = Error("TypeError", "start")
                   /\ UNCHANGED <<command, command_string, processes>>
              ELSE LET cmd == AeCommand(log_file.path, dir, task_config.artifacts,
                                        input_file)
                   IN  /\ command' = cmd
                       /\ command_string' = AeCommandString(cmd)
                       /\ processes' = Append(processes, Popen(cmd, FALSE, FALSE))
                       /\ pc' = "poll"
                       /\ outcome' = outcome
    /\ next_uuid' = next_uuid + 3
    /\ polls' = polls
    /\ status_text' = <<>>
    /\ UNCHANGED <<task, input_files, task_config, idx, output_file,
                   temp_plaso_file, temp_dir, output_files, produced, events, stdout>>

\* The for loop of psort and artifact_extract has no input file left.
LoopExit ==
    /\ task \in {"psort", "artifact_extract"}
    /\ pc = "start"
    /\ idx > Len(input_files)
    /\ pc' = "finish"
    /\ UNCHANGED <<task, input_files, task_config, idx, next_uuid, output_file,
                   status_file, export_directory, temp_plaso_file, temp_dir, command,
                   command_string, output_files, processes, status_text, disk,
                   produced, events, polls, outcome, stdout>>

(***************************************************************************)
(* The external process, while it runs.  What it does is decided by the    *)
(* argument vector it was started with.                                    *)
(***************************************************************************)
Running == processes # <<>> /\ process.state = "running"

\* The paths a command line may name.
KnownPaths ==
    {e.path : e \in disk}
    \cup (IF output_file.bound THEN {output_file.path} ELSE {})
    \cup (IF status_file.bound THEN {status_file.path} ELSE {})

Resolve(s) == CHOOSE p \in KnownPaths : PathStr(p) = s

\* The tool overwrites the status file named by --status-view-file.
ProcWriteStatus(text) ==
    /\ Running
    /\ HasFlag(process.argv, "--status-view-file")
    /\ disk' = disk \cup {File(Resolve(ArgAfter(process.argv, "--status-view-file")))}
    /\ status_text' = text
    /\ UNCHANGED <<task, input_files, task_config, pc, idx, next_uuid, output_file,
                   status_file, export_directory, temp_plaso_file, temp_dir, command,
                   command_string, output_files, processes, produced, events, polls,
                   outcome, stdout>>

\* The tool writes an output file: the storage file (log2timeline.py), the
\* file named by -w (psort.py), a file under the --write directory
\* (image_export.py).
ProcWriteOutput(rel) ==
    /\ Running
    /\ LET argv == process.argv
           target ==
               IF argv[1] = "log2timeline.py"
               THEN Resolve(ArgAfter(argv, "--storage-file"))
               ELSE IF argv[1] = "psort.py"
               THEN Resolve(ArgAfter(argv, "-w"))
               ELSE Resolve(ArgAfter(argv, "--write")) \o rel
           parents ==
               IF argv[1] = "image_export.py"
               THEN ParentDirs(Resolve(ArgAfter(argv, "--write")), rel)
               ELSE {}
       IN  /\ disk' = disk \cup {File(target)} \cup parents
           /\ produced' = produced \cup
                  {[path |-> target, origin |-> target, run |-> Len(processes)]}
    /\ UNCHANGED <<task, input_files, task_config, pc, idx, next_uuid, output_file,
                   status_file, export_directory, temp_plaso_file, temp_dir, command,
                   command_string, output_files, processes, status_text, events,
                   polls, outcome, stdout>>

\* The tool writes one more block to its captured standard output; the write
\* blocks while the pipe is full, and nothing reads the pipe before line 236
\* of log2timeline.py, 147 of psort.py.
StdoutBlocked == stdout.unwritten > 0 /\ stdout.buffered >= PipeCapacity

ProcWriteStdout ==
    /\ Running
    /\ stdout.unwritten > 0
    /\ ~StdoutBlocked
    /\ stdout' = [unwritten |-> stdout.unwritten - 1,
                  buffered |-> stdout.buffered + 1]
    /\ UNCHANGED <<task, input_files, task_config, pc, idx, next_uuid, output_file,
                   status_file, export_directory, temp_plaso_file, temp_dir, command,
                   command_string, output_files, processes, status_text, disk,
                   produced, events, polls, outcome>>

\* The tool exits, once it has written all its standard output; what it wrote
\* to standard error is in the pipe when the worker captures it.
ProcExit(code, err) ==
    /\ Running
    /\ stdout.unwritten = 0
    /\ process.capture \/ err = <<>>
    /\ processes' = [processes EXCEPT ![Len(processes)] =
                        [@ EXCEPT !.state = "exited", !.returncode = code,
                                  !.stderr = err]]
    /\ UNCHANGED <<task, input_files, task_config, pc, idx, next_uuid, output_file,
                   status_file, export_directory, temp_plaso_file, temp_dir, command,
                   command_string, output_files, status_text, disk, produced, events,
                   polls, outcome, stdout>>

(***************************************************************************)
(* The polling loop: log2timeline.py 229-235, psort.py 136-146,            *)
(* image_export.py 113-124.                                                *)
(***************************************************************************)
\* Whether the task captures the streams of its process and drains them after
\* the loop (log2timeline.py 236-238, psort.py 147-149).
DrainsStreams(t) == t \in {"log2timeline", "psort"}

\* Whether the call of log2timeline_status_to_dict is inside try/except.
SwallowsParseError(t) == t \in {"psort", "artifact_extract"}

\* while process.poll() is None
PollProcess ==
    /\ pc = "poll"
    /\ process.state = "running" => polls < MaxPolls
    /\ IF process.state = "running"
       THEN /\ pc' = "exists"
            /\ idx' = idx
       ELSE IF DrainsStreams(task)
            THEN pc' = "drain" /\ idx' = idx
            ELSE pc' = "start" /\ idx' = idx + 1
    /\ UNCHANGED <<task, input_files, task_config, next_uuid, output_file,
                   status_file, export_directory, temp_plaso_file, temp_dir, command,
                   command_string, output_files, processes, status_text, disk,
                   produced, events, polls, outcome, stdout>>

\* if not os.path.exists(status_file.path): continue
CheckStatusFile ==
    /\ pc = "exists"
    /\ pc' = IF Exists(disk, status_file.path) THEN "read" ELSE "poll"
    /\ UNCHANGED <<task, input_files, task_config, idx, next_uuid, output_file,
                   status_file, export_directory, temp_plaso_file, temp_dir, command,
                   command_string, output_files, processes, status_text, disk,
                   produced, events, polls, outcome, stdout>>

\* with open(status_file.path) as f: parse f.read() and send the event.
ReadStatusFile ==
    /\ pc = "read"
    /\ LET parsed == log2timeline_status_to_dict(status_text)
       IN  IF parsed.raised # "none" /\ ~SwallowsParseError(task)
           THEN /\ pc' = "done"
                /\ outcome' = Error(parsed.raised, "poll")
                /\ events' = events
                /\ polls' = polls
           ELSE /\ pc' = "sleep"
                /\ outcome' = outcome
                /\ events' = Append(events,
                       PollEvent(IF parsed.raised # "none" THEN EmptyData
                                 ELSE StatusData(parsed.dict)))
                /\ polls' = polls + 1
    /\ UNCHANGED <<task, input_files, task_config, idx, next_uuid, output_file,
                   status_file, export_directory, temp_plaso_file, temp_dir, command,
                   command_string, output_files, processes, status_text, disk,
                   produced, stdout>>

\* time.sleep(...)
Sleep ==
    /\ pc = "sleep"
    /\ pc' = "poll"
    /\ UNCHANGED <<task, input_files, task_config, idx, next_uuid, output_file,
                   status_file, export_directory, temp_plaso_file, temp_dir, command,
                   command_string, output_files, processes, status_text, disk,
                   produced, events, polls, outcome, stdout>>

\* logger.info(process.stdout.read()); process_plaso_cli_logs(process.stderr.read(), logger)
DrainStreams ==
    /\ pc = "drain"
    /\ stdout' = [stdout EXCEPT !.buffered = 0]
    /\ LET captured == IF process.text_mode THEN StrValue(process.stderr)
                       ELSE BytesValue(process.stderr)
           r == process_plaso_cli_logs(captured)
       IN  IF r.raised # "none"
           THEN /\ pc' = "done"
                /\ outcome' = Error(r.raised, "drain")
                /\ idx' = idx
           ELSE /\ outcome' = outcome
                /\ IF task = "psort"
                   THEN pc' = "start" /\ idx' = idx + 1
                   ELSE pc' = "finish" /\ idx' = idx
    /\ UNCHANGED <<task, input_files, task_config, next_uuid, output_file,
                   status_file, export_directory, temp_plaso_file, temp_dir, command,
                   command_string, output_files, processes, status_text, disk,
                   produced, events, polls>>

(***************************************************************************)
(* After the loop: the result.                                             *)
(***************************************************************************)
\* log2timeline.py 240-268.  pinfo reads the storage file; it raises when the
\* file holds no Plaso storage, which is the case when log2timeline.py never
\* wrote it.
L2tFinish ==
    /\ task = "log2timeline"
    /\ pc = "finish"
    /\ pc' = "done"
    /\ IF ~\E r \in produced : r.path = temp_plaso_file.name
       THEN /\ outcome' = Error("BadConfigOption", "finish")
            /\ UNCHANGED <<disk, produced, output_files>>
       ELSE LET copied == (disk \cup {File(output_file.path)})
                              \ {File(temp_plaso_file.name)}
            IN  /\ disk' = IF temp_dir.is_none THEN copied
                           ELSE RmTree(copied, temp_dir.path)
                /\ produced' =
                       {r \in produced : r.path # temp_plaso_file.name}
                       \cup {[path |-> output_file.path,
                              origin |-> temp_plaso_file.name, run |-> 1]}
                /\ output_files' = Append(output_files, to_dict(output_file))
                /\ outcome' = create_task_result(output_files', command_string)
    /\ UNCHANGED <<task, input_files, task_config, idx, next_uuid, output_file,
                   status_file, export_directory, temp_plaso_file, temp_dir, command,
                   command_string, processes, status_text, events, polls, stdout>>

\* psort.py 151-157.
PsortFinish ==
    /\ task = "psort"
    /\ pc = "finish"
    /\ pc' = "done"
    /\ IF ~output_file.bound
       THEN /\ outcome' = Error("UnboundLocalError", "finish")
            /\ output_files' = output_files
       ELSE /\ output_files' = Append(output_files, to_dict(output_file))
            /\ outcome' = create_task_result(output_files', command_string)
    /\ UNCHANGED <<task, input_files, task_config, idx, next_uuid, output_file,
                   status_file, export_directory, temp_plaso_file, temp_dir, command,
                   command_string, processes, status_text, disk, produced, events,
                   polls, stdout>>

\* The orders in which glob may yield the files of a set.
Orders(S) ==
    {s \in [1..Cardinality(S) -> S] : \A i, j \in DOMAIN s : s[i] = s[j] => i = j}

\* image_export.py 126-154: the files under export_directory, each moved to a
\* fresh slot of output_path and listed.
AeFinish ==
    /\ task = "artifact_extract"
    /\ pc = "finish"
    /\ pc' = "done"
    /\ IF ~export_directory.bound
       THEN /\ outcome' = Error("UnboundLocalError", "finish")
            /\ UNCHANGED <<disk, produced, output_files, output_file, next_uuid>>
       ELSE LET extracted == {e \in disk : /\ e.kind = "file"
                                          /\ IsPrefix(export_directory.path, e.path)}
                k == Cardinality(extracted)
            IN  \E extracted_files \in Orders(extracted) :
                  LET slot(i) == create_output_file(
                                     next_uuid + i,
                                     extracted_files[i].path[Len(extracted_files[i].path)],
                                     "", "")
                      moved(p) == IF \E i \in 1..k : extracted_files[i].path = p
                                  THEN slot(CHOOSE i \in 1..k :
                                                extracted_files[i].path = p).path
                                  ELSE p
                  IN  /\ disk' = (disk \ extracted) \cup {File(slot(i).path) : i \in 1..k}
                      /\ produced' = {[r EXCEPT !.path = moved(r.path)] : r \in produced}
                      /\ output_files' = output_files \o [i \in 1..k |-> to_dict(slot(i))]
                      /\ output_file' = IF k = 0 THEN output_file ELSE slot(k)
                      /\ next_uuid' = next_uuid + k
                      /\ outcome' = IF output_files' = <<>>
                                    THEN Error("RuntimeError", "finish")
                                    ELSE create_task_result(output_files', command_string)
    /\ UNCHANGED <<task, input_files, task_config, idx, status_file,
                   export_directory, temp_plaso_file, temp_dir, command,
                   command_string, processes, status_text, events, polls, stdout>>

(***************************************************************************)
(* The specifications.                                                     *)
(***************************************************************************)
utilVars == <<logVars, statusVars, ewfVars>>

Init == TaskInit /\ LogsIdle /\ StatusIdle /\ EwfIdle

Next ==
    \/ L2tStart /\ UNCHANGED utilVars
    \/ PsortStart /\ UNCHANGED utilVars
    \/ AeStart /\ UNCHANGED utilVars
    \/ LoopExit /\ UNCHANGED utilVars
    \/ PollProcess /\ UNCHANGED utilVars
    \/ CheckStatusFile /\ UNCHANGED utilVars
    \/ ReadStatusFile /\ UNCHANGED utilVars
    \/ Sleep /\ UNCHANGED utilVars
    \/ DrainStreams /\ UNCHANGED utilVars
    \/ L2tFinish /\ UNCHANGED utilVars
    \/ PsortFinish /\ UNCHANGED utilVars
    \/ AeFinish /\ UNCHANGED utilVars
    \/ (\E text \in StatusFileSamples : ProcWriteStatus(text)) /\ UNCHANGED utilVars
    \/ (\E rel \in ExportedNames : ProcWriteOutput(rel)) /\ UNCHANGED utilVars
    \/ ProcWriteStdout /\ UNCHANGED utilVars
    \/ (\E code \in ExitCodes, err \in StderrSamples : ProcExit(code, err))
           /\ UNCHANGED utilVars

Spec == Init /\ [][Next]_vars

\* The invocations that capture the streams of their process, under fair
\* scheduling: the worker's thread keeps running its code, and the external
\* process, while it can write to its standard output or exit, does so.
CaptureInit ==
    /\ Init
    /\ DrainsStreams(task)
    /\ Len(input_files) = 1
    /\ task_config = None

WorkerStep ==
    /\ \/ L2tStart \/ PsortStart \/ LoopExit
       \/ PollProcess \/ CheckStatusFile \/ ReadStatusFile \/ Sleep
       \/ DrainStreams \/ L2tFinish \/ PsortFinish
    /\ UNCHANGED utilVars

ProcessStep ==
    /\ \/ ProcWriteStdout
       \/ \E code \in ExitCodes, err \in StderrSamples : ProcExit(code, err)
    /\ UNCHANGED utilVars

ProcessFileStep ==
    /\ \/ \E text \in StatusFileSamples : ProcWriteStatus(text)
       \/ \E rel \in ExportedNames : ProcWriteOutput(rel)
    /\ UNCHANGED utilVars

CaptureNext == WorkerStep \/ ProcessStep \/ ProcessFileStep

SpecCapture ==
    CaptureInit /\ [][CaptureNext]_vars /\ WF_vars(WorkerStep) /\ WF_vars(ProcessStep)

\* process_plaso_cli_logs on texts of up to MaxLogLines lines.
LogsSpecInit == LogsInit /\ StatusIdle /\ EwfIdle /\ TaskIdle

LogsNext ==
    (\E line \in LogLineSamples : LogAppendLine(line))
        /\ UNCHANGED <<statusVars, ewfVars, taskVars>>

SpecLogs == LogsSpecInit /\ [][LogsNext]_vars

\* log2timeline_status_to_dict on texts of up to MaxStatusTokens tokens.
StatusSpecInit == StatusInit /\ LogsIdle /\ EwfIdle /\ TaskIdle

StatusNext ==
    (\E tok \in StatusTokenSamples : StatusAppendToken(tok))
        /\ UNCHANGED <<logVars, ewfVars, taskVars>>

SpecStatus == StatusSpecInit /\ [][StatusNext]_vars

\* is_ewf_files on lists of up to MaxEwfFiles input files.
EwfSpecInit == EwfInit /\ LogsIdle /\ StatusIdle /\ TaskIdle

EwfNext ==
    (\E input_file \in EwfFileSamples : EwfAppendFile(input_file))
        /\ UNCHANGED <<logVars, statusVars, taskVars>>

SpecEwf == EwfSpecInit /\ [][EwfNext]_vars

(***************************************************************************)
(* The claims.                                                             *)
(***************************************************************************)
Ended == pc = "done"

Returned == outcome.kind = "result"

Failed == outcome.kind = "error"

\* The polling loop of process i ended because the worker saw it exited.
ExitObserved(i) ==
    /\ i \in DOMAIN processes
    /\ processes[i].state = "exited"
    /\ \/ i < Len(processes)
       \/ Returned
       \/ Failed /\ outcome.at \in {"drain", "finish"}

\* C1: whenever the external process of an invocation exits with a non-zero
\* exit code, the invocation ends in a fatal error (one that carries that exit
\* code) and never returns a result envelope.  Stated here without the
\* parenthesis: no exception of the code carries an exit code, and the claim
\* already fails on its other half.
C1_NonZeroExitIsFatal ==
    Ended =>
        \A i \in DOMAIN processes :
            ExitObserved(i) /\ processes[i].returncode # 0 => Failed /\ ~Returned

\* C2: a process that exits with code 0 having written no output file makes the
\* invocation end in a fatal error; a returned result envelope never has an
\* empty output_files list and never lists an artifact no process produced.
C2_NoOutputIsFatal ==
    Ended =>
        /\ \A i \in DOMAIN processes :
               /\ ExitObserved(i)
               /\ processes[i].returncode = 0
               /\ ~\E r \in produced : r.run = i
               => Failed
        /\ Returned =>
               /\ outcome.output_files # <<>>
               /\ \A i \in DOMAIN outcome.output_files :
                      \E r \in produced : r.path = outcome.output_files[i].path

\* C3: every spawned process has its own "started" event (empty snapshot), sent
\* at the spawn, and no status-derived event comes before the first of them.
C3_StartedEventFirst ==
    /\ Cardinality({i \in DOMAIN events : events[i].src = "start"}) = Len(processes)
    /\ \A j \in DOMAIN events :
           events[j].src = "poll" =>
               \E i \in 1..(j - 1) : events[i].src = "start" /\ events[i].data = EmptyData

\* C4: the command field of a returned result envelope is the complete
\* argument vector passed to the external process, joined by single spaces.
C4_CommandIsFullArgv ==
    Returned => outcome.command = JoinStr(process.argv, " ")

\* C5: when artifact_extract returns a result envelope, every file that any
\* of its image_export runs wrote into its export directory has been moved
\* into the output area and is listed as exactly one artifact.
C5_EveryExportedFileListed ==
    task = "artifact_extract" /\ Returned =>
        \A r \in produced :
            /\ Len(r.path) = Len(output_path) + 1
            /\ IsPrefix(output_path, r.path)
            /\ Exists(disk, r.path)
            /\ Cardinality({i \in DOMAIN outcome.output_files :
                               outcome.output_files[i].path = r.path}) = 1

\* C8: draining and classifying the captured streams after the process exited
\* never aborts the invocation.
C8_DrainNeverAborts ==
    Failed => outcome.at # "drain"

\* ---- process_plaso_cli_logs, read from its input lines ----
IsBlankLine(l) == \A i \in DOMAIN l : l[i] \in Whitespace

NotBlankLine(l) == ~IsBlankLine(l)

\* The position of the first "]" of a line, 0 when it has none.
TagEnd(l) ==
    IF \E i \in DOMAIN l : l[i] = "]"
    THEN CHOOSE i \in DOMAIN l : l[i] = "]" /\ \A j \in 1..(i - 1) : l[j] # "]"
    ELSE 0

\* The line starts with a bracketed word.
HasTag(l) ==
    /\ Len(l) >= 3
    /\ l[1] = "["
    /\ TagEnd(l) >= 3
    /\ \A j \in 2..(TagEnd(l) - 1) : IsWordChar(l[j])

TagName(l) == SubSeq(l, 2, TagEnd(l) - 1)

KnownSeverity(tag) == \E n \in DOMAIN NameToLevel : Lower(n) = Lower(tag)

SeverityOf(tag) == NameToLevel[CHOOSE n \in DOMAIN NameToLevel : Lower(n) = Lower(tag)]

HasKnownTag(l) == HasTag(l) /\ KnownSeverity(TagName(l))

HasUnknownTag(l) == HasTag(l) /\ ~KnownSeverity(TagName(l))

TextAfterBracket(l) ==
    RStrip(LStripChars(SubSeq(l, TagEnd(l) + 1, Len(l)), Whitespace))

\* The severity of the most recent line before i with a known tag, else INFO.
CarriedSeverity(lines, i) ==
    LET prev == {j \in 1..(i - 1) : HasKnownTag(lines[j])}
    IN  IF prev = {} THEN INFO
        ELSE SeverityOf(TagName(lines[CHOOSE j \in prev : \A k \in prev : k <= j]))

NonBlankLines == SelectSeq(log_lines, NotBlankLine)

\* C6: for a text whose lines are blank, untagged or tagged with a known
\* severity, one record is logged per non-blank line, in order: a tagged line
\* at its own severity with the text after the bracket, an untagged line at the
\* severity of the most recent tagged line before it (INFO if none) with the
\* line trimmed of trailing whitespace; blank lines log nothing and leave the
\* carried severity alone.
C6_KnownTagsClassified ==
    (\A i \in DOMAIN NonBlankLines : ~HasUnknownTag(NonBlankLines[i])) =>
        /\ log_result.raised = "none"
        /\ Len(log_result.logged) = Len(NonBlankLines)
        /\ \A i \in DOMAIN NonBlankLines :
               log_result.logged[i] =
                   IF HasTag(NonBlankLines[i])
                   THEN [level |-> SeverityOf(TagName(NonBlankLines[i])),
                         msg |-> TextAfterBracket(NonBlankLines[i])]
                   ELSE [level |-> CarriedSeverity(NonBlankLines, i),
                         msg |-> RStrip(NonBlankLines[i])]

C6_Witness ==
    /\ Len(log_lines) = 3
    /\ HasKnownTag(log_lines[1])
    /\ Len(log_lines[2]) > 0 /\ IsBlankLine(log_lines[2])
    /\ ~HasTag(log_lines[3]) /\ ~IsBlankLine(log_lines[3])
    /\ Len(log_result.logged) = 2
    /\ log_result.logged[2].level = log_result.logged[1].level
    /\ log_result.logged[2].level # INFO

StatusPairsTokens == IF status_tokens = <<>> THEN <<>> ELSE Tail(status_tokens)

IsDecimalInteger(tok) ==
    LET digits == IF tok # <<>> /\ tok[1] \in {"+", "-"} THEN Tail(tok) ELSE tok
    IN  digits # <<>> /\ \A i \in DOMAIN digits : digits[i] \in Range(Digits)

ValuesAreIntegers ==
    \A k \in 1..(Len(StatusPairsTokens) \div 2) : IsDecimalInteger(StatusPairsTokens[2 * k])

\* The mapping of the (name, value) pairs under a reading Key of the names;
\* a repeated name keeps its last value, an unpaired last token is dropped.
ExpectedTasks(Key(_)) ==
    LET items == StatusPairsTokens
        n == Len(items) \div 2
        keys == {Key(items[2 * k - 1]) : k \in 1..n}
        last(key) == CHOOSE k \in 1..n :
                         /\ Key(items[2 * k - 1]) = key
                         /\ \A j \in (k + 1)..n : Key(items[2 * j - 1]) # key
    IN  [key \in keys |-> IntOf(items[2 * last(key)])]

\* The name with its trailing colon stripped, lower-cased.
TrailingColonStripped(name) ==
    Lower(IF name # <<>> /\ name[Len(name)] = ":"
          THEN SubSeq(name, 1, Len(name) - 1) ELSE name)

\* The name with all its leading and trailing colons stripped, lower-cased.
OuterColonsStripped(name) ==
    LET keep == {i \in DOMAIN name : name[i] # ":"}
    IN  IF keep = {} THEN <<>>
        ELSE Lower(SubSeq(name,
                          CHOOSE i \in keep : \A j \in keep : i <= j,
                          CHOOSE i \in keep : \A j \in keep : j <= i))

\* C9, read literally: for a status text with integers at the value positions the
\* result is {"tasks": M}, M pairing the tokens after the first as (name, value),
\* each name with its trailing colon stripped and lower-cased.
C9_TrailingColonOnly ==
    ValuesAreIntegers =>
        status_result = [raised |-> "none",
                         dict |-> [tasks |-> ExpectedTasks(TrailingColonStripped)]]

\* C9, with the colons read as the code strips them: each name has all its leading and trailing colons stripped
\* and is lower-cased; everything else as stated.
C9_OuterColonsStripped ==
    ValuesAreIntegers =>
        status_result = [raised |-> "none",
                         dict |-> [tasks |-> ExpectedTasks(OuterColonsStripped)]]

C9_Witness ==
    /\ Len(status_tokens) = 5
    /\ status_tokens[2] = <<":","b">>
    /\ status_tokens[4] = <<"c",":",":">>
    /\ status_tokens[5] = <<"7">>
    /\ status_result.raised = "none"
    /\ DOMAIN status_result.dict.tasks = { <<"b">>, <<"c">> }

\* ---- is_ewf_files, read from its input files ----
HasEwfExtension(p) ==
    LET n == Len(p)
    IN  /\ n >= 4
        /\ p[n - 3] = "."
        /\ p[n - 2] \in {"e", "E"}
        /\ p[n - 1] \in Range(Digits)
        /\ p[n] \in Range(Digits)
        /\ ~(p[n - 1] = "0" /\ p[n] = "0")

PathOrEmpty(f) == IF "path" \in DOMAIN f THEN f.path ELSE <<>>

\* C10: is_ewf_files is True exactly when the path of every input file (the
\* empty string when the key is missing) ends, in any case, with one of
\* .e01 to .e99.
C10_IsEwfFilesExact ==
    ewf_result =
        \A i \in DOMAIN ewf_input_files : HasEwfExtension(PathOrEmpty(ewf_input_files[i]))

C10_Witness ==
    /\ Len(ewf_input_files) = 2
    /\ ewf_result
    /\ \E i \in DOMAIN ewf_input_files :
           "E" \in Range(PathOrEmpty(ewf_input_files[i]))


\* ---- the polling loop ----
\* The status file of the running process is on disk.
StatusFileOnDisk ==
    status_file.bound /\ \E e \in disk : e.kind = "file" /\ e.path = status_file.path

\* The status text on disk has a value token that is no integer.
StatusTextUnparsable == log2timeline_status_to_dict(status_text).raised # "none"

\* C11: in the polling loop of every task, reading a status file whose content
\* cannot be parsed never makes the invocation fail: the error is swallowed, a
\* progress event with an empty snapshot is sent for that tick, and polling
\* continues with the sleep.
C11_ParseErrorSwallowed ==
    [][pc = "read" /\ pc' # pc /\ StatusTextUnparsable
         => /\ pc' = "sleep"
            /\ outcome' = outcome
            /\ events' = Append(events, PollEvent(EmptyData))]_vars

\* C12: in the polling loop of every task, a tick at which the status file
\* does not exist opens no file, sends no event, raises no error and goes back
\* to the liveness check; the status file is only opened when it exists.
C12_MissingStatusFileSkipped ==
    /\ [](pc = "read" => StatusFileOnDisk)
    /\ [][pc = "exists" /\ pc' # pc /\ ~StatusFileOnDisk
           => /\ pc' = "poll"
              /\ events' = events
              /\ polls' = polls
              /\ outcome' = outcome]_vars

C12_Witness ==
    /\ pc = "exists"
    /\ Running
    /\ ~StatusFileOnDisk
    /\ \E r \in produced : r.run = Len(processes)

\* C13: in the polling loop of every task, the loop never checks the liveness
\* of the process again without having slept: the check is reached from the
\* spawn or from the sleep only, also on a tick at which the status file does
\* not exist.
C13_SleepBetweenChecks ==
    [][pc' = "poll" /\ pc' # pc => pc \in {"start", "sleep"}]_vars

\* ---- log2timeline: temporary files ----
\* C14: when an invocation of log2timeline ends, with a result or with a fatal
\* error raised at any point, the temporary hard-link directory it made no
\* longer exists.  (The temporary storage file is closed at line 251 only; on
\* the other paths its removal is left to the finalisation of the
\* NamedTemporaryFile object, which is not stated here.)
C14_TempDirRemoved ==
    task = "log2timeline" /\ Ended /\ ~temp_dir.is_none
        => \A e \in disk : ~IsPrefix(temp_dir.path, e.path)

\* ---- psort: the artifacts of several inputs ----
\* C15: a result envelope of psort on N >= 1 input files lists exactly N
\* artifacts, the i-th being the output file declared for the psort.py run of
\* the i-th input (the file its -w argument names).
C15_OneArtifactPerInput ==
    task = "psort" /\ Returned =>
        /\ Len(outcome.output_files) = Len(input_files)
        /\ \A i \in DOMAIN outcome.output_files :
               /\ i \in DOMAIN processes
               /\ PathStr(outcome.output_files[i].path) = ArgAfter(processes[i].argv, "-w")

\* ---- the captured pipes ----
\* C16: for log2timeline and psort, under fair scheduling, every external
\* process the invocation starts eventually exits and the invocation
\* eventually ends (result envelope or fatal error): the process is never left
\* blocked on a full pipe while the polling loop keeps running.
C16_CapturedProcessEnds ==
    /\ [](DrainsStreams(task) /\ Running => <>(~Running))
    /\ [](DrainsStreams(task) => <>Ended)
====
